---- MODULE Spec2Model ----
(***************************************************************************)
(* Model of gosqs' configuration layer (config.go): the custom-attribute   *)
(* builder Config.NewCustomAttribute, the retry clamp retryer.MaxRetries   *)
(* and the default AWS configuration routine newAwsConfigs, together with  *)
(* the SessionProviderFunc override.                                       *)
(*                                                                         *)
(* Go strings whose content is computed or inspected (attribute values)    *)
(* are sequences of one-character strings, so strconv.Itoa is modelled by  *)
(* the digits it produces.  Strings that are only stored and compared      *)
(* (titles, tags, keys, regions, hostnames) are TLA+ strings.              *)
(***************************************************************************)
EXTENDS Integers, Sequences, FiniteSets, TLC

VARIABLES
    Attributes,   \* Config.Attributes, the []customAttribute of the receiver
    lastCall,     \* arguments of the most recent NewCustomAttribute call
    err,          \* error returned by the most recent NewCustomAttribute call
    passed,       \* history: the arguments of the successful calls, in call order
    cfgIn,        \* the Config handed to the configurator
    env,          \* what the process environment makes the SDK loader produce
    phase,        \* "ready" before the configurator ran, "returned" after
    out           \* what the configurator returned and which collaborators it called

attrVars == <<Attributes, lastCall, err, passed>>
resolveVars == <<cfgIn, env, phase, out>>
vars == <<Attributes, lastCall, err, passed, cfgIn, env, phase, out>>

----------------------------------------------------------------------------
(* Bounds of the model *)

\* longest attribute sequence built
MaxAttrs == 3
\* RetryCount ranges over -MaxRetryCount .. MaxRetryCount
MaxRetryCount == 11

----------------------------------------------------------------------------
(* Errors.  An error value is a kind and the kind of the error it wraps. *)

MkErr(kind, cause) == [kind |-> kind, cause |-> cause]

NilErr == MkErr("nil", "")

ErrMarshal == MkErr("ErrMarshal", "")

ErrInvalidCreds == MkErr("ErrInvalidCreds", "")

\* SQSError.Context: the same error kind, carrying e as its cause
Context(sqsErr, e) == MkErr(sqsErr.kind, e.kind)

----------------------------------------------------------------------------
(* interface{} values: a dynamic type and the payload of that type *)

IntV(n) == [type |-> "int", i |-> n, s |-> <<>>]
StrV(s) == [type |-> "string", i |-> 0, s |-> s]
OtherV(t, n, s) == [type |-> t, i |-> n, s |-> s]
NilV == OtherV("nil", 0, <<>>)

IntInputs == {-120, 0, 5}

StringInputs == { <<"a", "b", "c">>, <<"1", "2">> }

\* values whose dynamic type is neither int nor string
OtherInputs ==
    { OtherV("int64", 5, <<>>),
      OtherV("dataType", 0, <<"a", "b", "c">>),
      NilV }

Values == {IntV(n) : n \in IntInputs} \cup {StrV(s) : s \in StringInputs} \cup OtherInputs

\* value.(int) and value.(string): ok exactly for that dynamic type
IsInt(value) == value.type = "int"
IsString(value) == value.type = "string"

----------------------------------------------------------------------------
(* dataType *)

DataTypeNumber == "Number"
DataTypeString == "String"

\* dataType is a string type: callers may pass any other tag as well
DataTypes == {DataTypeNumber, DataTypeString, "Binary"}

\* dataType.String: the conversion string(dt) keeps the text
String(dt) == dt

Titles == {"correlationId", "logId"}

----------------------------------------------------------------------------
(* strconv.Itoa *)

Digit == <<"0", "1", "2", "3", "4", "5", "6", "7", "8", "9">>

RECURSIVE FormatUint(_)
FormatUint(n) ==
    IF n < 10 THEN <<Digit[n + 1]>>
    ELSE FormatUint(n \div 10) \o <<Digit[(n % 10) + 1]>>

\* a conversion that yields one character for the number instead of its digits
ItoaAsRune(n) == <<"?">>

Itoa(n) == IF n < 0 THEN <<"-">> \o FormatUint(-n) ELSE FormatUint(n)

----------------------------------------------------------------------------
(* customAttribute and Config.NewCustomAttribute *)

customAttribute(title, dataType, value) ==
    [Title |-> title, DataType |-> dataType, Value |-> value]

\* the numeric branch falls through to the string branch instead of returning
NewCustomAttributeFallThrough(attrs, dataType, title, value) ==
    IF dataType = DataTypeNumber /\ IsInt(value)
    THEN [attrs |-> Append(attrs, customAttribute(title, String(dataType), Itoa(value.i))),
          err |-> NilErr]
    ELSE IF ~IsString(value)
         THEN [attrs |-> attrs, err |-> ErrMarshal]
         ELSE [attrs |-> Append(attrs, customAttribute(title, String(dataType), value.s)),
               err |-> NilErr]

\* the string branch formats an int instead of rejecting it
NewCustomAttributeFormatsInts(attrs, dataType, title, value) ==
    IF dataType = DataTypeNumber
    THEN IF ~IsInt(value)
         THEN [attrs |-> attrs, err |-> ErrMarshal]
         ELSE [attrs |-> Append(attrs, customAttribute(title, String(dataType), Itoa(value.i))),
               err |-> NilErr]
    ELSE IF IsInt(value)
         THEN [attrs |-> Append(attrs, customAttribute(title, String(dataType), Itoa(value.i))),
               err |-> NilErr]
         ELSE IF ~IsString(value)
              THEN [attrs |-> attrs, err |-> ErrMarshal]
              ELSE [attrs |-> Append(attrs, customAttribute(title, String(dataType), value.s)),
                    err |-> NilErr]

\* the new attribute is put in front of the others
NewCustomAttributePrepends(attrs, dataType, title, value) ==
    IF dataType = DataTypeNumber
    THEN IF ~IsInt(value)
         THEN [attrs |-> attrs, err |-> ErrMarshal]
         ELSE [attrs |-> <<customAttribute(title, String(dataType), Itoa(value.i))>> \o attrs,
               err |-> NilErr]
    ELSE IF ~IsString(value)
         THEN [attrs |-> attrs, err |-> ErrMarshal]
         ELSE [attrs |-> <<customAttribute(title, String(dataType), value.s)>> \o attrs,
               err |-> NilErr]

NewCustomAttribute(attrs, dataType, title, value) ==
    IF dataType = DataTypeNumber
    THEN IF ~IsInt(value)
         THEN [attrs |-> attrs, err |-> ErrMarshal]
         ELSE [attrs |-> Append(attrs, customAttribute(title, String(dataType), Itoa(value.i))),
               err |-> NilErr]
    ELSE IF ~IsString(value)
         THEN [attrs |-> attrs, err |-> ErrMarshal]
         ELSE [attrs |-> Append(attrs, customAttribute(title, String(dataType), value.s)),
               err |-> NilErr]

NoCall == [dataType |-> "", title |-> "", value |-> NilV]

\* one call c.NewCustomAttribute(dataType, title, value) on the Config
CallNewCustomAttribute ==
    \E dataType \in DataTypes, title \in Titles, value \in Values :
        /\ Len(Attributes) < MaxAttrs    \* the model stops calling at MaxAttrs attributes
        /\ LET r == NewCustomAttribute(Attributes, dataType, title, value) IN
               /\ Attributes' = r.attrs
               /\ err' = r.err
               /\ passed' = IF r.err = NilErr
                            THEN Append(passed, [dataType |-> dataType, title |-> title,
                                                 value |-> value])
                            ELSE passed
        /\ lastCall' = [dataType |-> dataType, title |-> title, value |-> value]
        /\ UNCHANGED resolveVars

----------------------------------------------------------------------------
(* aws.Config, as far as the configurator reads or writes it *)

\* *string: nil, or a pointer to a string
NilPtr == [isNil |-> TRUE, s |-> ""]
PtrTo(s) == [isNil |-> FALSE, s |-> s]

NoCredentials == [set |-> FALSE, key |-> "", secret |-> ""]
NoRetryer == [set |-> FALSE, maxAttempts |-> 0]

\* aws.Config{}
ZeroConfig ==
    [Region |-> "", Credentials |-> NoCredentials, Retryer |-> NoRetryer,
     ClientLogMode |-> "", BaseEndpoint |-> NilPtr]

\* aws.NewCredentialsCache(credentials.NewStaticCredentialsProvider(key, secret, ""))
NewStaticCredentials(key, secret) == [set |-> TRUE, key |-> key, secret |-> secret]

\* creds.Retrieve: the static provider fails when the key or the secret is empty
Retrieve(creds) ==
    IF creds.key = "" \/ creds.secret = ""
    THEN MkErr("StaticCredentialsEmptyError", "")
    ELSE NilErr

----------------------------------------------------------------------------
(* retryer *)

DefaultMaxRetries == 10

\* the comparison admits zero
MaxRetriesAdmitsZero(retryCount) ==
    IF retryCount >= 0 THEN retryCount ELSE DefaultMaxRetries

\* retryer.MaxRetries, on a retryer{retryCount}
MaxRetries(retryCount) ==
    IF retryCount > 0 THEN retryCount ELSE DefaultMaxRetries

\* the Retryer option: retry.AddWithMaxAttempts(retry.NewStandard(), max)
AddWithMaxAttempts(max) == [set |-> TRUE, maxAttempts |-> max]

----------------------------------------------------------------------------
(* config.LoadDefaultConfig *)

LoadErrors ==
    { NilErr, MkErr("SharedConfigProfileNotExistError", ""),
      MkErr("SharedConfigLoadError", "") }

\* the loader's outcome as the process environment and the shared config files
\* decide it: the region and endpoint they configure, and whether it fails
Envs ==
    [defaultRegion : {"", "ap-south-1"},
     endpoint : {NilPtr, PtrTo("http://env.endpoint")},
     loadErr : LoadErrors]

\* The loader fails with the environment's error and an empty configuration; else
\* it takes credentials, retryer and log mode from the options, the region from
\* the options unless they carry the empty string (then from the environment),
\* and the base endpoint from the environment.
LoadDefaultConfig(opts, e) ==
    IF e.loadErr # NilErr
    THEN [cfg |-> ZeroConfig, err |-> e.loadErr]
    ELSE [cfg |-> [Region |-> IF opts.Region # "" THEN opts.Region ELSE e.defaultRegion,
                   Credentials |-> opts.Credentials,
                   Retryer |-> opts.Retryer,
                   ClientLogMode |-> opts.ClientLogMode,
                   BaseEndpoint |-> e.endpoint],
          err |-> NilErr]

----------------------------------------------------------------------------
(* newAwsConfigs *)

\* the region option is left out
loadOptionsNoRegion(c, creds) ==
    [Region |-> "",
     Credentials |-> creds,
     Retryer |-> AddWithMaxAttempts(MaxRetries(c.RetryCount)),
     ClientLogMode |-> "LogResponseWithBody"]

\* the options newAwsConfigs hands to config.LoadDefaultConfig
loadOptions(c, creds) ==
    [Region |-> c.Region,
     Credentials |-> creds,
     Retryer |-> AddWithMaxAttempts(MaxRetries(c.RetryCount)),
     ClientLogMode |-> "LogResponseWithBody"]

\* the hostname is set whether or not one is configured
setHostnameAlways(cfg, c) ==
    [cfg |-> [cfg EXCEPT !.BaseEndpoint = PtrTo(c.Hostname)],
     calls |-> <<"newAwsConfigs/BaseEndpoint">>]

\* if c.Hostname != "" { cfg.BaseEndpoint = &c.Hostname }
setHostname(cfg, c) ==
    IF c.Hostname # ""
    THEN [cfg |-> [cfg EXCEPT !.BaseEndpoint = PtrTo(c.Hostname)],
          calls |-> <<"newAwsConfigs/BaseEndpoint">>]
    ELSE [cfg |-> cfg, calls |-> <<>>]

\* the credential error is dropped and the configuration is loaded anyway
newAwsConfigsIgnoresRetrieve(c, e) ==
    LET creds == NewStaticCredentials(c.Key, c.Secret)
        loaded == LoadDefaultConfig(loadOptions(c, creds), e)
        calls == <<"newAwsConfigs/Retrieve", "newAwsConfigs/LoadDefaultConfig">>
    IN  IF loaded.err # NilErr
        THEN [cfg |-> ZeroConfig, err |-> loaded.err, calls |-> calls, args |-> <<>>]
        ELSE LET h == setHostname(loaded.cfg, c) IN
                 [cfg |-> h.cfg, err |-> NilErr, calls |-> calls \o h.calls, args |-> <<>>]

\* the loader's error is reported as a credential error
newAwsConfigsWrapsLoadErr(c, e) ==
    LET creds == NewStaticCredentials(c.Key, c.Secret)
        rerr == Retrieve(creds)
    IN  IF rerr # NilErr
        THEN [cfg |-> ZeroConfig, err |-> Context(ErrInvalidCreds, rerr),
              calls |-> <<"newAwsConfigs/Retrieve">>, args |-> <<>>]
        ELSE LET loaded == LoadDefaultConfig(loadOptions(c, creds), e)
                 calls == <<"newAwsConfigs/Retrieve", "newAwsConfigs/LoadDefaultConfig">>
             IN  IF loaded.err # NilErr
                 THEN [cfg |-> ZeroConfig, err |-> Context(ErrInvalidCreds, loaded.err),
                       calls |-> calls, args |-> <<>>]
                 ELSE LET h == setHostname(loaded.cfg, c) IN
                          [cfg |-> h.cfg, err |-> NilErr,
                           calls |-> calls \o h.calls, args |-> <<>>]

\* newAwsConfigs(c): the configuration and error it returns, and the
\* collaborators it called, in order
newAwsConfigs(c, e) ==
    LET creds == NewStaticCredentials(c.Key, c.Secret)
        rerr == Retrieve(creds)
    IN  IF rerr # NilErr
        THEN [cfg |-> ZeroConfig, err |-> Context(ErrInvalidCreds, rerr),
              calls |-> <<"newAwsConfigs/Retrieve">>, args |-> <<>>]
        ELSE LET loaded == LoadDefaultConfig(loadOptions(c, creds), e)
                 calls == <<"newAwsConfigs/Retrieve", "newAwsConfigs/LoadDefaultConfig">>
             IN  IF loaded.err # NilErr
                 THEN [cfg |-> ZeroConfig, err |-> loaded.err,
                       calls |-> calls, args |-> <<>>]
                 ELSE LET h == setHostname(loaded.cfg, c) IN
                          [cfg |-> h.cfg, err |-> NilErr,
                           calls |-> calls \o h.calls, args |-> <<>>]

----------------------------------------------------------------------------
(* SessionProviderFunc values a caller may set as Config.AwsConfigProvider *)

NilProvider == "nil"

\* the override of examples/config_provider.go
exampleOptions(creds) ==
    [Region |-> "us-west-1", Credentials |-> creds, Retryer |-> NoRetryer,
     ClientLogMode |-> ""]

exampleProvider(c, e) ==
    LET creds == NewStaticCredentials("mykey", "mysecret")
        rerr == Retrieve(creds)
    IN  IF rerr # NilErr
        THEN [cfg |-> ZeroConfig, err |-> Context(ErrInvalidCreds, rerr),
              calls |-> <<"provider/Retrieve">>]
        ELSE LET loaded == LoadDefaultConfig(exampleOptions(creds), e)
                 calls == <<"provider/Retrieve", "provider/LoadDefaultConfig">>
             IN  IF loaded.err # NilErr
                 THEN [cfg |-> ZeroConfig, err |-> loaded.err, calls |-> calls]
                 ELSE [cfg |-> [loaded.cfg EXCEPT
                                   !.BaseEndpoint = PtrTo("http://localhost:4150")],
                       err |-> NilErr,
                       calls |-> calls \o <<"provider/BaseEndpoint">>]

\* stub overrides: a fixed configuration, a fixed error, and a configuration
\* that repeats the region of the Config it was given
SentinelConfig ==
    [Region |-> "sentinel-1", Credentials |-> NoCredentials, Retryer |-> NoRetryer,
     ClientLogMode |-> "", BaseEndpoint |-> PtrTo("http://sentinel")]

ErrSentinel == MkErr("ErrSentinel", "")

Providers == {NilProvider, "example", "stubConfig", "stubError", "stubEcho"}

\* provider(c)
Invoke(provider, c, e) ==
    CASE provider = "example" -> exampleProvider(c, e)
      [] provider = "stubConfig" -> [cfg |-> SentinelConfig, err |-> NilErr, calls |-> <<>>]
      [] provider = "stubError" -> [cfg |-> SentinelConfig, err |-> ErrSentinel, calls |-> <<>>]
      [] provider = "stubEcho" ->
            [cfg |-> [ZeroConfig EXCEPT !.Region = c.Region], err |-> NilErr, calls |-> <<>>]

----------------------------------------------------------------------------
(* The configurator *)

RetryCounts == (0 - MaxRetryCount) .. MaxRetryCount

Configs ==
    [AwsConfigProvider : Providers,
     Key : {"", "k"},
     Secret : {"", "s"},
     Region : {"", "us-west-1"},
     Hostname : {"", "http://localhost:4150"},
     RetryCount : RetryCounts]

\* the override is never consulted
ResolveAlwaysDefault(c, e) == newAwsConfigs(c, e)

\* Resolve(cfg): the override when one is set, else newAwsConfigs
Resolve(c, e) ==
    IF c.AwsConfigProvider # NilProvider
    THEN LET r == Invoke(c.AwsConfigProvider, c, e) IN
             [cfg |-> r.cfg, err |-> r.err,
              calls |-> <<"AwsConfigProvider">> \o r.calls, args |-> <<c>>]
    ELSE newAwsConfigs(c, e)

NoResult == [cfg |-> ZeroConfig, err |-> NilErr, calls |-> <<>>, args |-> <<>>]

\* one configurator run on cfgIn
CallResolve ==
    /\ phase = "ready"
    /\ out' = Resolve(cfgIn, env)
    /\ phase' = "returned"
    /\ UNCHANGED <<cfgIn, env>>
    /\ UNCHANGED attrVars

----------------------------------------------------------------------------
(* Specifications *)

\* a Config with no attributes, on which NewCustomAttribute is called
InitAttributes ==
    /\ Attributes = <<>>
    /\ lastCall = NoCall
    /\ err = NilErr
    /\ passed = <<>>
    /\ cfgIn = [AwsConfigProvider |-> NilProvider, Key |-> "k", Secret |-> "s",
                Region |-> "us-west-1", Hostname |-> "", RetryCount |-> 0]
    /\ env = [loadErr |-> NilErr, defaultRegion |-> "", endpoint |-> NilPtr]
    /\ phase = "ready"
    /\ out = NoResult

NextAttributes == CallNewCustomAttribute

SpecAttributes == InitAttributes /\ [][NextAttributes]_vars

\* any Config in any environment, handed to the configurator
InitResolve ==
    /\ Attributes = <<>>
    /\ lastCall = NoCall
    /\ err = NilErr
    /\ passed = <<>>
    /\ cfgIn \in Configs
    /\ env \in Envs
    /\ phase = "ready"
    /\ out = NoResult

NextResolve == CallResolve

SpecResolve == InitResolve /\ [][NextResolve]_vars

----------------------------------------------------------------------------
(* Reading decimal text, used to state what the attribute values must be *)

IsDigit(ch) == \E d \in 1..10 : Digit[d] = ch

DigitValue(ch) == (CHOOSE d \in 1..10 : Digit[d] = ch) - 1

RECURSIVE DecimalValue(_)
DecimalValue(body) ==
    IF body = <<>> THEN 0
    ELSE DecimalValue(SubSeq(body, 1, Len(body) - 1)) * 10 + DigitValue(body[Len(body)])

\* an optional minus sign and one or more digits, with no leading zero and no "-0"
IsDecimalText(s) ==
    /\ Len(s) > 0
    /\ LET body == IF s[1] = "-" THEN Tail(s) ELSE s IN
           /\ Len(body) > 0
           /\ \A k \in 1..Len(body) : IsDigit(body[k])
           /\ (Len(body) > 1 => body[1] # "0")
           /\ (s[1] = "-" => body # <<"0">>)

\* s is the base-10 text of the integer n
IsBase10TextOf(s, n) ==
    /\ IsDecimalText(s)
    /\ n = (IF s[1] = "-" THEN 0 - DecimalValue(Tail(s)) ELSE DecimalValue(s))

\* the step appended exactly one attribute and kept the earlier ones in place
AppendedOne ==
    /\ Len(Attributes') = Len(Attributes) + 1
    /\ SubSeq(Attributes', 1, Len(Attributes)) = Attributes

Last(s) == s[Len(s)]

----------------------------------------------------------------------------
(* Claims about Config.NewCustomAttribute, under SpecAttributes *)

C7_StringTag ==
    [][(lastCall'.dataType \in DataTypes /\ lastCall'.dataType # DataTypeNumber) =>
         IF lastCall'.value.type = "string"
         THEN /\ err' = NilErr
              /\ AppendedOne
              /\ Last(Attributes').Value = lastCall'.value.s
         ELSE /\ err' = ErrMarshal
              /\ Attributes' = Attributes]_vars

\* an int was refused under the string tag, after a string was stored under it
C7_Witness ==
    /\ lastCall.dataType = DataTypeString
    /\ lastCall.value = IntV(5)
    /\ err = ErrMarshal
    /\ Len(Attributes) = 1
    /\ Attributes[1].DataType = "String"
    /\ Attributes[1].Value = <<"1", "2">>

\* the attribute a successful call with these arguments stores
StoredFor(call, attr) ==
    /\ attr.Title = call.title
    /\ attr.DataType = call.dataType
    /\ IF call.dataType = DataTypeNumber
       THEN call.value.type = "int" /\ IsBase10TextOf(attr.Value, call.value.i)
       ELSE call.value.type = "string" /\ attr.Value = call.value.s

\* C8: the attribute sequence is exactly the attributes of the successful calls,
\* in call order; a successful call appends one element and keeps every earlier
\* element in place, a failed call changes nothing, nothing is removed or reordered.
C8_AppendOnly ==
    /\ [](/\ Len(Attributes) = Len(passed)
          /\ \A k \in 1..Len(Attributes) : StoredFor(passed[k], Attributes[k]))
    /\ [][IF err' = NilErr THEN AppendedOne ELSE Attributes' = Attributes]_vars

\* a failed call came after two successful ones with different tags
C8_Witness ==
    /\ Len(Attributes) = 2
    /\ Attributes[1].DataType = "String"
    /\ Attributes[2].DataType = "Number"
    /\ Attributes[1].Title # Attributes[2].Title
    /\ err = ErrMarshal

\* C9: in every state reached by NewCustomAttribute calls from a Config with no
\* attributes, each attribute with the numeric tag holds the base-10 text of an
\* integer and each attribute with the string tag holds the string passed in.
C9_ValueMatchesTag ==
    \A k \in 1..Len(Attributes) :
        /\ Attributes[k].DataType = "Number" => IsDecimalText(Attributes[k].Value)
        /\ Attributes[k].DataType = "String" =>
               /\ k <= Len(passed)
               /\ passed[k].value.type = "string"
               /\ Attributes[k].Value = passed[k].value.s

\* a numeric attribute and a string attribute that itself reads as a number
C9_Witness ==
    /\ Len(Attributes) = 2
    /\ Attributes[1].DataType = "Number"
    /\ Attributes[1].Value = <<"0">>
    /\ Attributes[2].DataType = "String"
    /\ Attributes[2].Value = <<"a", "b", "c">>

----------------------------------------------------------------------------
(* Claims about the configurator, under SpecResolve *)

Returned == phase = "returned"

DefaultPath == cfgIn.AwsConfigProvider = NilProvider

\* the outcome of the eager credential retrieval for cfgIn
RetrieveErrIn == Retrieve(NewStaticCredentials(cfgIn.Key, cfgIn.Secret))

DefaultPathCalls ==
    {"newAwsConfigs/Retrieve", "newAwsConfigs/LoadDefaultConfig",
     "newAwsConfigs/BaseEndpoint"}

Called(name) == \E k \in 1..Len(out.calls) : out.calls[k] = name

\* C1: with AwsConfigProvider set, the configurator invokes that function once,
\* with the given Config, runs none of the default path, and returns the
\* function's configuration and error unchanged.
C1_OverrideVerbatim ==
    (Returned /\ ~DefaultPath) =>
        /\ out.args = <<cfgIn>>
        /\ Cardinality({k \in 1..Len(out.calls) : out.calls[k] = "AwsConfigProvider"}) = 1
        /\ \A k \in 1..Len(out.calls) : out.calls[k] \notin DefaultPathCalls
        /\ out.cfg = Invoke(cfgIn.AwsConfigProvider, cfgIn, env).cfg
        /\ out.err = Invoke(cfgIn.AwsConfigProvider, cfgIn, env).err

\* a stub's configuration and error came back although the Config's own
\* credentials are empty
C1_Witness ==
    /\ Returned
    /\ cfgIn.AwsConfigProvider = "stubError"
    /\ cfgIn.Key = ""
    /\ out.err = ErrSentinel
    /\ out.cfg = SentinelConfig

\* C2: on the default path, when the credential retrieval fails the configurator
\* returns ErrInvalidCreds carrying the retrieval's error, with an empty
\* configuration, and the loader is not called.
C2_CredsFailFast ==
    (Returned /\ DefaultPath /\ RetrieveErrIn # NilErr) =>
        /\ out.err.kind = "ErrInvalidCreds"
        /\ out.err.cause = RetrieveErrIn.kind
        /\ out.cfg = ZeroConfig
        /\ ~Called("newAwsConfigs/LoadDefaultConfig")

\* an empty secret was refused in an environment where the loader would succeed
C2_Witness ==
    /\ Returned /\ DefaultPath
    /\ cfgIn.Key = "k" /\ cfgIn.Secret = ""
    /\ env.loadErr = NilErr
    /\ out.err = MkErr("ErrInvalidCreds", "StaticCredentialsEmptyError")

\* C3: the maximum attempts handed to the retry wrapper is 10 when
\* RetryCount <= 0 and RetryCount itself when RetryCount > 0.
C3_RetryClamp ==
    (Returned /\ DefaultPath /\ out.err = NilErr) =>
        /\ out.cfg.Retryer.set
        /\ out.cfg.Retryer.maxAttempts =
               (IF cfgIn.RetryCount <= 0 THEN 10 ELSE cfgIn.RetryCount)

\* a zero RetryCount resolved to ten attempts
C3_Witness ==
    /\ Returned /\ DefaultPath
    /\ out.err = NilErr
    /\ cfgIn.RetryCount = 0
    /\ out.cfg.Retryer.maxAttempts = 10

\* C4: after a successful default-path run, a non-empty Hostname is the base
\* endpoint of the returned configuration, and with an empty Hostname the base
\* endpoint is what the loader produced and the configurator did not set it.
C4_HostnameOverride ==
    (Returned /\ DefaultPath /\ out.err = NilErr) =>
        IF cfgIn.Hostname # ""
        THEN out.cfg.BaseEndpoint = PtrTo(cfgIn.Hostname)
        ELSE /\ out.cfg.BaseEndpoint = env.endpoint
             /\ ~Called("newAwsConfigs/BaseEndpoint")

\* the Hostname replaced an endpoint the loader had taken from the environment
C4_Witness ==
    /\ Returned /\ DefaultPath
    /\ out.err = NilErr
    /\ cfgIn.Hostname = "http://localhost:4150"
    /\ env.endpoint = PtrTo("http://env.endpoint")
    /\ out.cfg.BaseEndpoint = PtrTo("http://localhost:4150")

C10_LoaderErrorPassedThrough ==
    (Returned /\ DefaultPath /\ RetrieveErrIn = NilErr /\ env.loadErr # NilErr) =>
        /\ out.err = env.loadErr
        /\ out.cfg = ZeroConfig
        /\ out.calls = <<"newAwsConfigs/Retrieve", "newAwsConfigs/LoadDefaultConfig">>

\* the loader failed for a Config that asks for a hostname override
C10_Witness ==
    /\ Returned /\ DefaultPath
    /\ cfgIn.Hostname = "http://localhost:4150"
    /\ env.loadErr = MkErr("SharedConfigLoadError", "")
    /\ out.err = MkErr("SharedConfigLoadError", "")
    /\ out.cfg.BaseEndpoint = NilPtr

====
